---------------------------- MODULE Spec2Model ----------------------------
(***************************************************************************)
(* ndn-fch-worker: the FCH query handler (handleQuery, Query, apiRequest,  *)
(* fallbackLogic) and the testbed router directory (fetchTestbedNodes,     *)
(* listRouters).                                                           *)
(*                                                                         *)
(* Representation.                                                         *)
(*  - A string that the code scans character by character (k, lon, lat,    *)
(*    the client address) is a sequence of one-character strings.  A       *)
(*    string that the code only passes around or uses as a key (cap,       *)
(*    network, host, body, content type) is a TLA+ string.                 *)
(*  - A JavaScript value that may be missing (null, undefined, NaN) is a   *)
(*    sequence of length 0, a present value v is <<v>>.                    *)
(*  - Coordinates are fixed-point numbers in hundredths of a degree.       *)
(*  - A URLSearchParams object is a record of value lists, one list per    *)
(*    name: getAll(name) is the list, has(name) is "the list is not        *)
(*    empty", get(name) is its first element.                              *)
(***************************************************************************)
EXTENDS Integers, Sequences, FiniteSets, TLC

VARIABLES
    now,          \* Date.now()
    routers,      \* testbed.mjs: let routers
    lastFetch,    \* testbed.mjs: let lastFetch
    pc,           \* per request: position inside handleQuery
    req,          \* per request: the inbound Request
    q,            \* per request: const q = new Query(req)
    source,       \* per request: let source
    contentType,  \* per request: let contentType
    body,         \* per request: let body
    apiTimer,     \* per request: the 1000 ms timer of handleQuery
    dirTimer,     \* per request: the 2000 ms timer of listRouters
    upstream,     \* per request: what the API server answers (environment)
    call,         \* per request: history of its listRouters() call
    sent,         \* per request: parameter set sent to the API server
    pin,          \* PureSpec: inputs (request, cached list)
    pout,         \* PureSpec: results of Query / toSearchParams / fallbackLogic
    race          \* RaceSpec: per call of abortableFetch, its controller and promises

vars == <<now, routers, lastFetch, pc, req, q, source, contentType, body,
          apiTimer, dirTimer, upstream, call, sent, pin, pout, race>>

----------------------------------------------------------------------------
(* JavaScript values                                                       *)

None == <<>>

Some(v) == <<v>>

IsSome(o) == Len(o) > 0

Max(a, b) == IF a >= b THEN a ELSE b

Min(a, b) == IF a <= b THEN a ELSE b

Abs(a) == IF a < 0 THEN 0 - a ELSE a

Digits == <<"0", "1", "2", "3", "4", "5", "6", "7", "8", "9">>

IsDigit(c) == \E i \in 1..10 : Digits[i] = c

DigitVal(c) == (CHOOSE i \in 1..10 : Digits[i] = c) - 1

\* Length of the longest prefix of s made of decimal digits.
RECURSIVE DigitPrefixLen(_)
DigitPrefixLen(s) ==
    IF s = <<>> \/ ~IsDigit(s[1]) THEN 0 ELSE 1 + DigitPrefixLen(Tail(s))

\* Value of a sequence of decimal digits.
RECURSIVE DigitsValue(_)
DigitsValue(s) ==
    IF s = <<>> THEN 0
    ELSE 10 * DigitsValue(SubSeq(s, 1, Len(s) - 1)) + DigitVal(s[Len(s)])

RECURSIVE TrimLeft(_)
TrimLeft(s) == IF s # <<>> /\ s[1] = " " THEN TrimLeft(Tail(s)) ELSE s

HasSign(s) == s # <<>> /\ s[1] \in {"-", "+"}

Unsigned(s) == IF HasSign(s) THEN Tail(s) ELSE s

SignOf(s) == IF s # <<>> /\ s[1] = "-" THEN 0 - 1 ELSE 1

\* Number.parseInt(s, 10): None is NaN.
ParseInt(s) ==
    LET t == TrimLeft(s)
        u == Unsigned(t)
        n == DigitPrefixLen(u)
    IN  IF n = 0 THEN None ELSE Some(SignOf(t) * DigitsValue(SubSeq(u, 1, n)))

\* Number.parseFloat(s), in hundredths: None is NaN.  Digits after the
\* second decimal place are below the resolution of the fixed-point numbers;
\* exponents and "Infinity" are not among the strings of StrNums.
ParseFloat(s) ==
    LET t == TrimLeft(s)
        u == Unsigned(t)
        n == DigitPrefixLen(u)
        rest == SubSeq(u, n + 1, Len(u))
        f == IF rest # <<>> /\ rest[1] = "." THEN Tail(rest) ELSE <<>>
        m == DigitPrefixLen(f)
        d1 == IF m >= 1 THEN DigitVal(f[1]) ELSE 0
        d2 == IF m >= 2 THEN DigitVal(f[2]) ELSE 0
    IN  IF n = 0 /\ m = 0 THEN None
        ELSE Some(SignOf(t) * (100 * DigitsValue(SubSeq(u, 1, n)) + 10 * d1 + d2))

\* `${n}` of a non-negative integer.
RECURSIVE NatToStr(_)
NatToStr(n) ==
    IF n < 10 THEN <<Digits[n + 1]>> ELSE NatToStr(n \div 10) \o <<Digits[(n % 10) + 1]>>

\* `${n}` of an integer.
IntToStr(n) == IF n < 0 THEN <<"-">> \o NatToStr(0 - n) ELSE NatToStr(n)

\* `${v}` of a coordinate: undefined prints as "undefined", a number as its
\* shortest decimal.
NumToStr(o) ==
    IF ~IsSome(o) THEN <<"u", "n", "d", "e", "f", "i", "n", "e", "d">>
    ELSE LET v == o[1]
             a == Abs(v)
             whole == NatToStr(a \div 100)
             frac == a % 100
             tail == IF frac = 0 THEN <<>>
                     ELSE IF frac % 10 = 0 THEN <<".", Digits[(frac \div 10) + 1]>>
                     ELSE <<".", Digits[(frac \div 10) + 1], Digits[(frac % 10) + 1]>>
         IN  (IF v < 0 THEN <<"-">> ELSE <<>>) \o whole \o tail

\* !!s of a string.
Truthy(s) == s # ""

----------------------------------------------------------------------------
(* class Query                                                             *)

\* URLSearchParams.get(key) of a value list.
Get(vals) == IF vals = <<>> THEN None ELSE Some(vals[1])

\* One element of count: the callback of .map() in the constructor.
CountOf(k) ==
    LET n == ParseInt(k) IN IF IsSome(n) THEN Max(1, n[1]) ELSE 1

\* Query.parseBooleanParam(search, key, dflt); vals is search.getAll(key).
parseBooleanParam(vals, dflt) ==
    LET v == Get(vals)
    IN  IF v = Some("1") THEN TRUE
        ELSE IF v = Some("0") THEN FALSE
        ELSE dflt

\* Query.parseFloatParam(search, key, min, max, dflt).
parseFloatParam(vals, min, max, dflt) ==
    LET g == Get(vals)
        v == IF IsSome(g) THEN ParseFloat(g[1]) ELSE None
    IN  IF IsSome(v) /\ v[1] >= min /\ v[1] <= max THEN v ELSE dflt

\* ip.includes(":")
IncludesColon(ip) == \E i \in 1..Len(ip) : ip[i] = ":"

\* Bounds of the coordinates, in hundredths of a degree.
LonMax == 18000

LatMax == 9000

\* this.transport of the first variant of the constructor:
\* getAll("cap") || ["udp"]; an empty array is truthy.
EarlierTransportOf(s) == s.cap

TransportOf(s) == IF s.cap # <<>> THEN s.cap ELSE <<"udp">>

\* The constructor, from the search parameters s, the CF-Connecting-IP
\* header and req.cf.
QueryOf(s, iphdr, cf) ==
    LET ip == IF IsSome(iphdr) THEN iphdr[1] ELSE <<>>
    IN  [count     |-> [i \in 1..Len(IF s.k # <<>> THEN s.k ELSE <<<<"1">>>>) |->
                          CountOf((IF s.k # <<>> THEN s.k ELSE <<<<"1">>>>)[i])],
         transport |-> TransportOf(s),
         ipv4      |-> parseBooleanParam(s.ipv4, TRUE),
         ipv6      |-> parseBooleanParam(s.ipv6, IncludesColon(ip)),
         lon       |-> parseFloatParam(s.lon, 0 - LonMax, LonMax, cf.longitude),
         lat       |-> parseFloatParam(s.lat, 0 - LatMax, LatMax, cf.latitude),
         network   |-> Get(s.network)]

Query(r) == QueryOf(r.search, r.ip, r.cf)

\* if (this.network): null and "" are both skipped.
NetworkDropped(network) == <<>>

NetworkParam(network) ==
    IF IsSome(network) /\ Truthy(network[1]) THEN network ELSE <<>>

\* The k parameters of the first variant of toSearchParams:
\* s.set("k", `${this.k}`), a single value.
SingleCountParam(count) == <<IntToStr(count[1])>>

\* for (const k of this.count) s.append("k", `${k}`)
CountParams(count) == [i \in 1..Len(count) |-> IntToStr(count[i])]

\* Query.toSearchParams()
toSearchParams(qq) ==
    [k       |-> CountParams(qq.count),
     cap     |-> qq.transport,
     ipv4    |-> <<IF qq.ipv4 THEN "1" ELSE "0">>,
     ipv6    |-> <<IF qq.ipv6 THEN "1" ELSE "0">>,
     lon     |-> <<NumToStr(qq.lon)>>,
     lat     |-> <<NumToStr(qq.lat)>>,
     network |-> NetworkParam(qq.network)]

----------------------------------------------------------------------------
(* testbed.mjs: fetchTestbedNodes                                          *)

\* o._real_position || o.position: kind "undef" stands for a missing (falsy)
\* field, "array" for an array of elems, "other" for any other value.
PosOf(o) == IF o.real.kind # "undef" THEN o.real ELSE o.position

\* Array.isArray(pos) && pos.length === 2
PosAccepted(pos) == pos.kind = "array" /\ Len(pos.elems) = 2

\* new URL(o.site).host: the host name, then ":" and the port unless the port
\* is missing or the default of the scheme.  None: the constructor throws.
UrlHost(site) ==
    IF ~site.valid THEN None
    ELSE Some(IF site.port = "" THEN site.host ELSE site.host \o ":" \o site.port)

\* host === "" || host === "0.0.0.0"
HostRejected(host) == host = "" \/ host = "0.0.0.0"

\* The body of the for loop for one entry o: the router pushed, if any.
RouterOf(o) ==
    LET pos == PosOf(o)
        h == UrlHost(o.site)
    IN  IF ~PosAccepted(pos) THEN None
        ELSE IF ~IsSome(h) THEN None
        ELSE IF HostRejected(h[1]) THEN None
        ELSE Some([id       |-> o.shortname,
                   position |-> <<pos.elems[2], pos.elems[1]>>,
                   host     |-> h[1],
                   udp      |-> o.fch,
                   wss      |-> o.fch /\ o.wstls])

\* The for loop over Object.values(j).
RECURSIVE ParseNodes(_)
ParseNodes(entries) ==
    IF entries = <<>> THEN <<>>
    ELSE RouterOf(entries[1]) \o ParseNodes(Tail(entries))

----------------------------------------------------------------------------
(* distance                                                                *)

\* 1000 * cos at 0, 30, ..., 180 degrees.
CosTable == <<1000, 866, 500, 0, 0 - 500, 0 - 866, 0 - 1000>>

\* Step of CosTable, in hundredths of a degree.
CosStep == 3000

\* 1000 * cos(a), a in hundredths of a degree; linear between table entries.
Cos1000(a) ==
    LET m == Abs(a) % 36000
        b == IF m > 18000 THEN 36000 - m ELSE m
        i == b \div CosStep
        f == b % CosStep
    IN  IF f = 0 THEN CosTable[i + 1]
        ELSE CosTable[i + 1] + ((CosTable[i + 2] - CosTable[i + 1]) * f) \div CosStep

\* distance(a, b) of two [lon, lat] points.  The great-circle distance is
\* 2 R atan2(sqrt h, sqrt(1 - h)) with
\*   h = sin^2(dLat/2) + sin^2(dLon/2) cos(latA) cos(latB),
\* strictly increasing in h; the value here is 2 000 000 h, which orders
\* points as the distance does.  None is NaN (a coordinate is no number).
distance(a, b) ==
    IF ~IsSome(a[1]) \/ ~IsSome(a[2]) \/ ~IsSome(b[1]) \/ ~IsSome(b[2]) THEN None
    ELSE LET dLat == b[2][1] - a[2][1]
             dLon == b[1][1] - a[1][1]
         IN  Some((1000 - Cos1000(dLat)) * 1000
                  + ((Cos1000(a[2][1]) * Cos1000(b[2][1])) \div 1000)
                    * (1000 - Cos1000(dLon)))

----------------------------------------------------------------------------
(* fallbackLogic                                                           *)

\* Properties every object inherits from Object.prototype (some of them).
InheritedProps == {"constructor", "toString", "valueOf", "hasOwnProperty"}

\* !!router[c]: the value of property c of a Router object, as a boolean.
RouterProp(router, c) ==
    CASE c = "udp" -> router.udp
      [] c = "wss" -> router.wss
      [] c = "host" -> Truthy(router.host)
      [] c = "id" -> Truthy(router.id)
      [] c = "position" -> TRUE
      [] c \in InheritedProps -> TRUE
      [] OTHER -> FALSE

\* q.transport.some((c) => !!router[c])
AvailAlways(qq, router) == TRUE

Avail(qq, router) ==
    \E i \in 1..Len(qq.transport) : RouterProp(router, qq.transport[i])

\* The comparator of avail.sort() on the distances da, db of two routers from
\* pos: the sign of da - db; NaN counts as 0.
Compare(da, db) ==
    IF IsSome(da) /\ IsSome(db) THEN da[1] - db[1] ELSE 0

\* Index x inserted before the first index whose distance is not smaller: a
\* sort that is not stable.
RECURSIVE InsertBeforeEqual(_, _, _)
InsertBeforeEqual(d, x, s) ==
    IF s = <<>> THEN <<x>>
    ELSE IF Compare(d[s[1]], d[x]) >= 0 THEN <<x>> \o s
    ELSE <<s[1]>> \o InsertBeforeEqual(d, x, Tail(s))

\* Index x inserted into the sorted index list s, after every index whose
\* distance in d is not greater.
RECURSIVE Insert(_, _, _)
Insert(d, x, s) ==
    IF s = <<>> THEN <<x>>
    ELSE IF Compare(d[s[1]], d[x]) > 0 THEN <<x>> \o s
    ELSE <<s[1]>> \o Insert(d, x, Tail(s))

\* The indices 1..n in sorted order.
RECURSIVE SortedIndices(_, _)
SortedIndices(d, n) ==
    IF n = 0 THEN <<>> ELSE Insert(d, n, SortedIndices(d, n - 1))

\* Array.prototype.sort with the comparator: a stable sort.  d[i] is the
\* distance the comparator computes for s[i]; d and order are computed once,
\* each ranging over a singleton.
Sort(pos, s) ==
    CHOOSE sorted \in
        { [i \in 1..Len(s) |-> s[order[i]]] :
            order \in { SortedIndices(d, Len(s)) :
                d \in { [i \in 1..Len(s) |-> distance(pos, s[i].position)] } } } :
        TRUE

\* hosts.join(",")
RECURSIVE Join(_)
Join(hosts) ==
    IF hosts = <<>> THEN ""
    ELSE IF Len(hosts) = 1 THEN hosts[1]
    ELSE hosts[1] \o "," \o Join(Tail(hosts))

\* avail.slice(0, n)
Slice(s, n) == SubSeq(s, 1, Min(n, Len(s)))

\* The body of fallbackLogic once listRouters() has returned list.  Each of
\* avail, sorted and top is computed once: it ranges over a singleton.
fallbackLogic(qq, list) ==
    CHOOSE result \in
        { <<"text/plain", Join([i \in 1..Len(top) |-> top[i].host])>> :
            top \in { Slice(sorted, qq.count[1]) :
                sorted \in { Sort(<<qq.lon, qq.lat>>, avail) :
                    avail \in { SelectSeq(list, LAMBDA router : Avail(qq, router)) } } } } :
        TRUE

----------------------------------------------------------------------------
(* Bounds and inputs of the request machine                                *)

\* Number of requests in flight.
NReq == 2

\* Refresh intervals the clock may advance by while no timer is pending.
MaxIntervals == 2

Req == 1..NReq

\* handleQuery: setTimeout(..., 1000)
ApiTimeout == 1000

\* listRouters: setTimeout(..., 2000)
DirTimeout == 2000

\* listRouters: lastFetch + 3600000 < Date.now()
RefreshInterval == 3600000

\* The clock starts where the never-fetched cache (lastFetch = 0) is stale.
StartTime == RefreshInterval + 1

Str(s) == [i \in 1..Len(s) |-> s[i]]

NoSearch == [k |-> <<>>, cap |-> <<>>, ipv4 |-> <<>>, ipv6 |-> <<>>,
             lon |-> <<>>, lat |-> <<>>, network |-> <<>>]

\* Inbound requests of the machine: the search parameters of req.url, the
\* CF-Connecting-IP header, and req.cf.
MachineRequests ==
    { [search |-> NoSearch,
       ip     |-> Some(<<"1", ".", "2">>),
       cf     |-> [longitude |-> Some(0), latitude |-> Some(0)]],
      [search |-> [NoSearch EXCEPT !.k = <<<<"2">>>>, !.cap = <<"wss", "udp">>,
                                   !.lon = <<<<"6", "0">>>>, !.lat = <<<<"3", "0">>>>,
                                   !.network = <<"ndn">>],
       ip     |-> Some(<<"a", ":", "b">>),
       cf     |-> [longitude |-> None, latitude |-> None]] }

Site(host, port) == [valid |-> TRUE, host |-> host, port |-> port]

BadSite == [valid |-> FALSE, host |-> "", port |-> ""]

Pair(x, y) == [kind |-> "array", elems |-> <<Some(x), Some(y)>>]

NoPos == [kind |-> "undef", elems |-> <<>>]

Entry(name, pos, site, fch, wstls) ==
    [shortname |-> name, real |-> NoPos, position |-> pos, site |-> site,
     fch |-> fch, wstls |-> wstls]

\* Directory documents the server may answer with: Object.values(j), raw
\* positions being [lat, lon].
DocA ==
    << Entry("A", Pair(0, 0), Site("a", ""), TRUE, TRUE),
       Entry("B", Pair(6000, 6000), Site("b", ""), TRUE, FALSE),
       Entry("C", Pair(3000, 3000), Site("c", ""), FALSE, TRUE) >>

\* P has _real_position [200, 50]; the position of Q is ["x", 0]; R has a
\* _real_position of one element; the position of S is the string "ab".
DocB ==
    << Entry("D", Pair(3000, 6000), Site("d", "6363"), TRUE, TRUE),
       Entry("E", NoPos, Site("e", ""), TRUE, TRUE),
       Entry("F", Pair(0, 0), BadSite, TRUE, TRUE),
       Entry("G", Pair(0, 0), Site("0.0.0.0", ""), TRUE, TRUE),
       Entry("H", Pair(0, 0), Site("0.0.0.0", "6363"), TRUE, FALSE),
       [Entry("P", Pair(0, 0), Site("p", ""), FALSE, FALSE)
           EXCEPT !.real = Pair(20000, 5000)],
       Entry("Q", [kind |-> "array", elems |-> <<None, Some(0)>>],
             Site("q", ""), FALSE, FALSE),
       [Entry("R", Pair(0, 0), Site("r", ""), FALSE, FALSE)
           EXCEPT !.real = [kind |-> "array", elems |-> <<Some(0)>>]],
       Entry("S", [kind |-> "string", elems |-> <<None, None>>],
             Site("s", ""), FALSE, FALSE) >>

\* A document whose only node is not fch-enabled.
DocC == << Entry("C", Pair(3000, 3000), Site("c", ""), FALSE, TRUE) >>

DirDocs == {DocA, DocB, DocC}

\* Content types and bodies the API server may answer with.
ApiContentTypes == {"application/json"}

ApiBodies == {"", "x.example"}

NoTimer == [state |-> "none", deadline |-> 0]

NoCall == [made |-> FALSE, at |-> 0, fetched |-> FALSE, failed |-> FALSE,
           before |-> <<>>, lastBefore |-> 0, returned |-> <<>>]

NoAnswer == [outcome |-> "none", ct |-> "", body |-> ""]

NoQuery == Query(CHOOSE r \in MachineRequests : r.search = NoSearch)

NoPin == [request |-> CHOOSE r \in MachineRequests : r.search = NoSearch,
          list |-> <<>>]

NoPout == [step |-> "init", query |-> NoQuery, params |-> NoSearch,
           again |-> NoQuery, result |-> <<"", "">>]

\* Number of abortableFetch calls in flight.
NCalls == 2

Calls == 1..NCalls

\* A promise not yet settled.
Pending == [state |-> "pending", value |-> "", by |-> ""]

\* Before handleRequest has run for a call: no controller, no timer, no
\* fetch.  aborted and callback are the fields of FetchAbortSignal as its
\* constructor sets them; net is the network call of fetch(req), netSignal
\* whether an abort signal was handed to it; promise is what Promise.race
\* returned; delivered counts the resumptions of the caller's await and
\* outcome is what the await produced.
NoRaceCall ==
    [phase |-> "idle", aborted |-> FALSE, callback |-> "noop",
     timer |-> "none", net |-> "none", netSignal |-> "none",
     promise |-> Pending, delivered |-> 0, outcome |-> Pending]

NoRace == [c \in Calls |-> NoRaceCall]

----------------------------------------------------------------------------
(* The request machine: handleQuery, apiRequest, fallbackLogic,            *)
(* listRouters, one step per resumption of the code.                       *)

Init ==
    /\ now = StartTime
    /\ routers = <<>>
    /\ lastFetch = 0
    /\ pc = [r \in Req |-> "idle"]
    /\ req = [r \in Req |-> NoPin.request]
    /\ q = [r \in Req |-> NoQuery]
    /\ source = [r \in Req |-> ""]
    /\ contentType = [r \in Req |-> ""]
    /\ body = [r \in Req |-> ""]
    /\ apiTimer = [r \in Req |-> NoTimer]
    /\ dirTimer = [r \in Req |-> NoTimer]
    /\ upstream = [r \in Req |-> NoAnswer]
    /\ call = [r \in Req |-> NoCall]
    /\ sent = [r \in Req |-> NoSearch]
    /\ pin = NoPin
    /\ pout = NoPout
    /\ race = NoRace

\* listRouters: lastFetch + 3600000 < Date.now()
StaleAlways(last, t) == TRUE

Stale(last, t) == last + RefreshInterval < t

\* What a rejected fetchTestbedNodes leaves in the cache: the catch block
\* only logs.
CacheDroppedOnFailure(list) == <<>>

CacheAfterFailure(list) == list

\* lastFetch after a rejected fetchTestbedNodes.
LastFetchAfterFailure(last, t) == last

\* contentType after body = await fallbackLogic(q), the assignment of the
\* variant without content negotiation.
ContentTypeKept(prev, result) == prev

\* contentType after [contentType, body] = await fallbackLogic(q).
ContentTypeAfterFallback(prev, result) == result[1]

\* The rest of handleQuery once fallbackLogic has its router list, prev being
\* contentType so far: lines 226-227, then the response.
FinishFallback(r, prev, list) ==
    /\ \E result \in {fallbackLogic(q[r], list)} :
          /\ contentType' = [contentType EXCEPT ![r] =
                                ContentTypeAfterFallback(prev, result)]
          /\ body' = [body EXCEPT ![r] = result[2]]
    /\ source' = [source EXCEPT ![r] = "fallback"]
    /\ pc' = [pc EXCEPT ![r] = "done"]

\* if (!body) of handleQuery with contentType ct and source src so far, body
\* being empty: fallbackLogic calls listRouters, which returns the cache at
\* once when it is fresh and else starts its timer and its fetch.
EnterFallback(r, ct, src) ==
    IF Stale(lastFetch, now)
    THEN /\ dirTimer' = [dirTimer EXCEPT ![r] =
                            [state |-> "pending", deadline |-> now + DirTimeout]]
         /\ call' = [call EXCEPT ![r] =
                        [made |-> TRUE, at |-> now, fetched |-> TRUE, failed |-> FALSE,
                         before |-> routers, lastBefore |-> lastFetch,
                         returned |-> <<>>]]
         /\ contentType' = [contentType EXCEPT ![r] = ct]
         /\ source' = [source EXCEPT ![r] = src]
         /\ body' = [body EXCEPT ![r] = ""]
         /\ pc' = [pc EXCEPT ![r] = "dir_fetch"]
    ELSE /\ call' = [call EXCEPT ![r] =
                        [made |-> TRUE, at |-> now, fetched |-> FALSE, failed |-> FALSE,
                         before |-> routers, lastBefore |-> lastFetch,
                         returned |-> routers]]
         /\ FinishFallback(r, ct, routers)
         /\ UNCHANGED dirTimer

\* handleQuery up to its first await: the Query, the timer, the fetch of
\* apiRequest.  Requests are numbered in the order in which they arrive.
StartRequestFrom(r, requests) ==
    /\ pc[r] = "idle"
    /\ \A o \in Req : o < r => pc[o] # "idle"
    /\ \E rq \in requests :
          /\ req' = [req EXCEPT ![r] = rq]
          /\ q' = [q EXCEPT ![r] = Query(rq)]
          /\ sent' = [sent EXCEPT ![r] = toSearchParams(Query(rq))]
    /\ source' = [source EXCEPT ![r] = ""]
    /\ contentType' = [contentType EXCEPT ![r] = "text/plain"]
    /\ body' = [body EXCEPT ![r] = ""]
    /\ apiTimer' = [apiTimer EXCEPT ![r] =
                       [state |-> "pending", deadline |-> now + ApiTimeout]]
    /\ pc' = [pc EXCEPT ![r] = "api_fetch"]
    /\ UNCHANGED <<now, routers, lastFetch, dirTimer, upstream, call,
                   pin, pout, race>>

StartRequest(r) == StartRequestFrom(r, MachineRequests)

\* apiRequest: fetch() resolves with a 2xx response; res.text() is awaited.
ApiHeadersOk(r) ==
    /\ pc[r] = "api_fetch"
    /\ \E ct \in ApiContentTypes :
          upstream' = [upstream EXCEPT ![r] = [outcome |-> "ok", ct |-> ct, body |-> ""]]
    /\ pc' = [pc EXCEPT ![r] = "api_body"]
    /\ UNCHANGED <<now, routers, lastFetch, req, q, source, contentType, body,
                   apiTimer, dirTimer, call, sent, pin, pout, race>>

\* apiRequest: fetch() resolves with a non-2xx response; apiRequest throws,
\* handleQuery logs and goes on with an empty body.
ApiHttpError(r) ==
    /\ pc[r] = "api_fetch"
    /\ upstream' = [upstream EXCEPT ![r] = [outcome |-> "http", ct |-> "", body |-> ""]]
    /\ EnterFallback(r, contentType[r], source[r])
    /\ UNCHANGED <<now, routers, lastFetch, req, q, apiTimer, sent, pin, pout, race>>

\* apiRequest: fetch() or res.text() rejects with a network error.
ApiNetworkError(r) ==
    /\ pc[r] \in {"api_fetch", "api_body"}
    /\ upstream' = [upstream EXCEPT ![r] = [outcome |-> "neterr", ct |-> "", body |-> ""]]
    /\ EnterFallback(r, contentType[r], source[r])
    /\ UNCHANGED <<now, routers, lastFetch, req, q, apiTimer, sent, pin, pout, race>>

\* if (body) instead of if (!body).
FallbackOnBody(text) == Truthy(text)

\* fallbackLogic called whatever the API returned.
FallbackAlways(text) == TRUE

\* if (!body)
NeedsFallback(text) == ~Truthy(text)

\* apiRequest returns [Content-Type, text]; handleQuery clears the timer and
\* sets source = "api"; a non-empty body is the response, an empty one goes
\* on to fallbackLogic.
ApiBody(r) ==
    /\ pc[r] = "api_body"
    /\ \E text \in ApiBodies :
          /\ upstream' = [upstream EXCEPT ![r].body = text, ![r].outcome = "text"]
          /\ IF ~NeedsFallback(text)
             THEN /\ contentType' = [contentType EXCEPT ![r] = upstream[r].ct]
                  /\ body' = [body EXCEPT ![r] = text]
                  /\ source' = [source EXCEPT ![r] = "api"]
                  /\ pc' = [pc EXCEPT ![r] = "done"]
                  /\ UNCHANGED <<dirTimer, call>>
             ELSE EnterFallback(r, upstream[r].ct, "api")
    /\ apiTimer' = [apiTimer EXCEPT ![r].state = "cleared"]
    /\ UNCHANGED <<now, routers, lastFetch, req, q, sent, pin, pout, race>>

\* Whether abort.abort() rejects the call awaited at position p: the signal
\* is handed to fetch(), whose promise and whose body stream reject on it.
AbortIgnored(p, awaiting) == FALSE

\* A callback that rejects without regard to what the request awaits.
AbortRejectsAlways(p, awaiting) == TRUE

\* One controller for both calls of a request: abort() rejects whichever
\* call the request awaits.
AbortRejectsAny(p, awaiting) == p \notin {"idle", "done"}

AbortRejects(p, awaiting) == p \in awaiting

\* The callback of the 1000 ms timer: abort.abort(new Error("timeout")).
ApiTimerFires(r) ==
    /\ apiTimer[r].state = "pending"
    /\ now >= apiTimer[r].deadline
    /\ apiTimer' = [apiTimer EXCEPT ![r].state = "fired"]
    /\ IF AbortRejects(pc[r], {"api_fetch", "api_body"})
       THEN /\ upstream' = [upstream EXCEPT ![r].outcome = "timeout"]
            /\ EnterFallback(r, contentType[r], source[r])
       ELSE UNCHANGED <<upstream, pc, contentType, body, source, dirTimer, call>>
    /\ UNCHANGED <<now, routers, lastFetch, req, q, sent, pin, pout, race>>

\* listRouters after fetchTestbedNodes rejected: the catch block logs, the
\* cache is returned.
FailRefresh(r) ==
    /\ routers' = CacheAfterFailure(routers)
    /\ lastFetch' = LastFetchAfterFailure(lastFetch, now)
    /\ call' = [call EXCEPT ![r].failed = TRUE,
                            ![r].returned = CacheAfterFailure(routers)]
    /\ FinishFallback(r, contentType[r], CacheAfterFailure(routers))

\* fetchTestbedNodes: fetch() resolves with an ok response; res.json() is
\* awaited.
DirHeadersOk(r) ==
    /\ pc[r] = "dir_fetch"
    /\ pc' = [pc EXCEPT ![r] = "dir_body"]
    /\ UNCHANGED <<now, routers, lastFetch, req, q, source, contentType, body,
                   apiTimer, dirTimer, upstream, call, sent, pin, pout, race>>

\* fetchTestbedNodes: fetch() resolves with !res.ok; throws HTTP status.
DirHttpError(r) ==
    /\ pc[r] = "dir_fetch"
    /\ FailRefresh(r)
    /\ UNCHANGED <<now, req, q, apiTimer, dirTimer, upstream, sent, pin, pout, race>>

\* fetchTestbedNodes: fetch() or res.json() rejects with a network error.
DirNetworkError(r) ==
    /\ pc[r] \in {"dir_fetch", "dir_body"}
    /\ FailRefresh(r)
    /\ UNCHANGED <<now, req, q, apiTimer, dirTimer, upstream, sent, pin, pout, race>>

\* fetchTestbedNodes: res.json() rejects, or Object.values / the loop throws
\* on a body that is no object of objects.
DirBadBody(r) ==
    /\ pc[r] = "dir_body"
    /\ FailRefresh(r)
    /\ UNCHANGED <<now, req, q, apiTimer, dirTimer, upstream, sent, pin, pout, race>>

\* routers = await fetchTestbedNodes(...): the module variable is assigned
\* the list that fetchTestbedNodes built in a local array.
CacheAppended(old, fetched) == old \o fetched

CacheAfterSuccess(old, fetched) == fetched

\* fetchTestbedNodes returns the parsed list; listRouters replaces the cache,
\* clears its timer and records the time.
DirBody(r) ==
    /\ pc[r] = "dir_body"
    /\ \E doc \in DirDocs :
          /\ routers' = CacheAfterSuccess(routers, ParseNodes(doc))
          /\ call' = [call EXCEPT ![r].returned =
                                      CacheAfterSuccess(routers, ParseNodes(doc))]
          /\ FinishFallback(r, contentType[r],
                            CacheAfterSuccess(routers, ParseNodes(doc)))
    /\ dirTimer' = [dirTimer EXCEPT ![r].state = "cleared"]
    /\ lastFetch' = now
    /\ UNCHANGED <<now, req, q, apiTimer, upstream, sent, pin, pout, race>>

\* The callback of the 2000 ms timer: abort.abort(new Error("timeout")).
DirTimerFires(r) ==
    /\ dirTimer[r].state = "pending"
    /\ now >= dirTimer[r].deadline
    /\ dirTimer' = [dirTimer EXCEPT ![r].state = "fired"]
    /\ IF AbortRejects(pc[r], {"dir_fetch", "dir_body"})
       THEN FailRefresh(r)
       ELSE UNCHANGED <<routers, lastFetch, call, pc, contentType, body, source>>
    /\ UNCHANGED <<now, req, q, apiTimer, upstream, sent, pin, pout, race>>

\* Deadlines of the timers that are set and neither cleared nor fired.
PendingDeadlines ==
    {apiTimer[r].deadline : r \in {x \in Req : apiTimer[x].state = "pending"}}
    \cup {dirTimer[r].deadline : r \in {x \in Req : dirTimer[x].state = "pending"}}

\* Time passes while a timer is pending: up to the next deadline (a timer
\* that is due runs before the clock moves on).
TimerTick ==
    /\ PendingDeadlines # {}
    /\ \A d \in PendingDeadlines : d > now
    /\ now' = CHOOSE d \in PendingDeadlines : \A e \in PendingDeadlines : d <= e
    /\ UNCHANGED <<routers, lastFetch, pc, req, q, source, contentType, body,
                   apiTimer, dirTimer, upstream, call, sent, pin, pout, race>>

\* Time passes while no timer is pending: one refresh interval.
IntervalTick ==
    /\ PendingDeadlines = {}
    /\ now + RefreshInterval
          <= StartTime + MaxIntervals * RefreshInterval + NReq * (ApiTimeout + DirTimeout)
    /\ now' = now + RefreshInterval
    /\ UNCHANGED <<routers, lastFetch, pc, req, q, source, contentType, body,
                   apiTimer, dirTimer, upstream, call, sent, pin, pout, race>>

\* One step of a request that has started.
RequestStep(r) ==
    \/ ApiHeadersOk(r)
    \/ ApiHttpError(r)
    \/ ApiNetworkError(r)
    \/ ApiBody(r)
    \/ ApiTimerFires(r)
    \/ DirHeadersOk(r)
    \/ DirHttpError(r)
    \/ DirNetworkError(r)
    \/ DirBadBody(r)
    \/ DirBody(r)
    \/ DirTimerFires(r)

Next ==
    \/ \E r \in Req : StartRequest(r)
    \/ \E r \in Req : RequestStep(r)
    \/ TimerTick
    \/ IntervalTick

Spec == Init /\ [][Next]_vars

\* The request that arrives r-th in the runs of LiveSpec.
LiveRequest(r) ==
    CHOOSE rq \in MachineRequests : (rq.search = NoSearch) <=> (r % 2 = 1)

LiveStart(r) == StartRequestFrom(r, {LiveRequest(r)})

\* The requests and their timers alone: IntervalTick is enabled only while
\* no timer is pending, that is while no request awaits a call.
LiveNext ==
    \/ \E r \in Req : LiveStart(r)
    \/ \E r \in Req : RequestStep(r)
    \/ TimerTick

\* The event loop runs every callback that is ready: timers that are due
\* fire, and time passes up to the next deadline.
LiveSpec ==
    /\ Init /\ [][LiveNext]_vars
    /\ WF_vars(TimerTick)
    /\ \A r \in Req : WF_vars(ApiTimerFires(r)) /\ WF_vars(DirTimerFires(r))

----------------------------------------------------------------------------
(* Query, toSearchParams and fallbackLogic as functions: the inputs are    *)
(* drawn in the initial state, each step applies one of them.              *)

\* Longest directory document of PureSpec.
MaxEntries == 3

KLists ==
    { <<>>, <<<<"2">>>>, <<<<"0">>>>, <<<<"x">>>>,
      <<<<"1", "2">>, <<"2", ".", "7">>>>, <<<<"3", "x">>, <<"-", "1">>, <<>>>> }

CapLists == { <<>>, <<"wss", "udp">>, <<"">> }

Ipv4Lists == { <<>>, <<"0">>, <<"x">> }

Ipv6Lists == { <<>>, <<"0", "1">> }

LonLists ==
    { <<>>, <<<<"-", "1", "8", "0">>>>, <<<<"1", "8", "0", ".", "0", "1">>>>,
      <<<<"x">>>>, <<<<"1", ".", "5">>>> }

LatLists == { <<>>, <<<<"9", "1">>>>, <<<<".", "5">>, <<"1">>>> }

NetworkLists == { <<>>, <<"">>, <<"ndn">> }

IpHeaders == { None, Some(<<"a", ":", "b">>) }

\* req.cf: the geolocation hint, which may be missing.
CfHints ==
    { [longitude |-> Some(6000), latitude |-> Some(3000)],
      [longitude |-> None, latitude |-> None] }

\* Requests that exercise the constructor.
ParseRequests ==
    { [search |-> [k |-> k, cap |-> cap, ipv4 |-> i4, ipv6 |-> i6, lon |-> lon,
                   lat |-> lat, network |-> net],
       ip |-> ip, cf |-> cf] :
        k \in KLists, cap \in CapLists, i4 \in Ipv4Lists, i6 \in Ipv6Lists,
        lon \in LonLists, lat \in LatLists, net \in NetworkLists,
        ip \in IpHeaders, cf \in CfHints }

\* Requests that exercise the selection of fallbackLogic.
SelectRequests ==
    { [search |-> [NoSearch EXCEPT !.k = k, !.cap = cap, !.lon = lon, !.network = net],
       ip |-> None, cf |-> cf] :
        k \in { <<>>, <<<<"2">>>>, <<<<"3">>, <<"1">>>> },
        cap \in { <<>>, <<"wss">>, <<"wss", "udp">>, <<"tcp">>, <<"host">>,
                  <<"toString">> },
        lon \in { <<>>, <<<<"6", "0">>>> },
        net \in { <<>>, <<"ndn">> },
        cf \in { [longitude |-> Some(0), latitude |-> Some(0)],
                 [longitude |-> None, latitude |-> None] } }

\* Raw directory entries of PureSpec; raw positions are [lat, lon].
RawEntries ==
    { Entry("A", Pair(0, 0), Site("a", ""), TRUE, TRUE),
      Entry("B", Pair(6000, 6000), Site("b", ""), TRUE, FALSE),
      Entry("C", Pair(3000, 3000), Site("c", ""), FALSE, TRUE),
      Entry("D", Pair(6000, 6000), Site("d", "6363"), TRUE, TRUE),
      Entry("E", NoPos, Site("e", ""), TRUE, TRUE) }

RECURSIVE SeqsUpTo(_, _)
SeqsUpTo(S, n) ==
    IF n = 0 THEN {<<>>}
    ELSE LET shorter == SeqsUpTo(S, n - 1)
         IN  shorter \cup {Append(t, x) : t \in shorter, x \in S}

\* The lists the cache may hold: the parse of a directory document.
CachedLists == {ParseNodes(doc) : doc \in SeqsUpTo(RawEntries, MaxEntries)}

PureInputs ==
    {[request |-> rq, list |-> <<>>] : rq \in ParseRequests}
    \cup {[request |-> rq, list |-> l] : rq \in SelectRequests, l \in CachedLists}

PureInit ==
    /\ now = StartTime
    /\ routers = <<>>
    /\ lastFetch = 0
    /\ pc = [r \in Req |-> "idle"]
    /\ req = [r \in Req |-> NoPin.request]
    /\ q = [r \in Req |-> NoQuery]
    /\ source = [r \in Req |-> ""]
    /\ contentType = [r \in Req |-> ""]
    /\ body = [r \in Req |-> ""]
    /\ apiTimer = [r \in Req |-> NoTimer]
    /\ dirTimer = [r \in Req |-> NoTimer]
    /\ upstream = [r \in Req |-> NoAnswer]
    /\ call = [r \in Req |-> NoCall]
    /\ sent = [r \in Req |-> NoSearch]
    /\ pin \in PureInputs
    /\ pout = NoPout
    /\ race = NoRace

machineVars == <<now, routers, lastFetch, pc, req, q, source, contentType, body,
                 apiTimer, dirTimer, upstream, call, sent>>

\* const q = new Query(req)
Construct ==
    /\ pout.step = "init"
    /\ pout' = [pout EXCEPT !.step = "query", !.query = Query(pin.request)]
    /\ UNCHANGED <<machineVars, pin, race>>

\* q.toSearchParams()
Serialize ==
    /\ pout.step = "query"
    /\ pout' = [pout EXCEPT !.step = "params", !.params = toSearchParams(pout.query)]
    /\ UNCHANGED <<machineVars, pin, race>>

\* new Query() of a request that carries the serialized parameters and the
\* same client hints.
Reparse ==
    /\ pout.step = "params"
    /\ pout' = [pout EXCEPT !.step = "again",
                            !.again = QueryOf(pout.params, pin.request.ip, pin.request.cf)]
    /\ UNCHANGED <<machineVars, pin, race>>

\* fallbackLogic(q) with listRouters() returning pin.list.
Select ==
    /\ pout.step = "query"
    /\ pout' = [pout EXCEPT !.step = "result",
                            !.result = fallbackLogic(pout.query, pin.list)]
    /\ UNCHANGED <<machineVars, pin, race>>

PureNext == Construct \/ Serialize \/ Reparse \/ Select

PureSpec == PureInit /\ [][PureNext]_vars

----------------------------------------------------------------------------
(* handleRequest of the variant with FetchAbortController: abortableFetch  *)
(* raced against the 1000 ms timer, one step per callback or resumption.   *)

\* resolve / reject of a promise: the first one settles it, later ones are
\* ignored; Promise.race settles with the first of its inputs to settle.
SettleAgain(p, st, v, who) == [state |-> st, value |-> v, by |-> who]

Settle(p, st, v, who) ==
    IF p.state = "pending" THEN [state |-> st, value |-> v, by |-> who] ELSE p

\* What signal.callback receives when abort(reason) runs:
\* this.signal.callback() is called without arguments.
CallbackArgument(reason) == "undefined"

\* FetchAbortController.abort(reason) on the controller of call record rc.
\* The callback is reject of the promise raced against fetch(req) once
\* abortableFetch has run, and the empty function before.
abort(rc, reason) ==
    [rc EXCEPT !.aborted = TRUE,
               !.promise = IF rc.callback = "reject"
                           THEN Settle(rc.promise, "rejected",
                                       CallbackArgument(reason), "abort")
                           ELSE rc.promise]

\* handleRequest: new FetchAbortController(), setTimeout(..., 1000).
NewController(c) ==
    /\ race[c].phase = "idle"
    /\ race' = [race EXCEPT ![c].phase = "armed", ![c].aborted = FALSE,
                            ![c].callback = "noop", ![c].timer = "pending"]
    /\ UNCHANGED <<machineVars, pin, pout>>

\* abortableFetch(req, signal): fetch(req) starts without a signal; the
\* executor stores reject in signal.callback and rejects at once, without a
\* reason, when the signal is aborted already.
AbortableFetch(c) ==
    /\ race[c].phase = "armed"
    /\ race' = [race EXCEPT ![c].phase = "racing", ![c].net = "pending",
                            ![c].netSignal = "none", ![c].callback = "reject",
                            ![c].promise =
                                IF race[c].aborted
                                THEN Settle(Pending, "rejected", "undefined", "abort")
                                ELSE Pending]
    /\ UNCHANGED <<machineVars, pin, pout>>

\* The callback of the timer: abort.abort(new Error("timeout")).
RaceTimerFires(c) ==
    /\ race[c].timer = "pending"
    /\ race' = [race EXCEPT ![c] = [abort(race[c], "timeout") EXCEPT !.timer = "fired"]]
    /\ UNCHANGED <<machineVars, pin, pout>>

\* fetch(req) resolves with a response, ok or not.
NetResolves(c) ==
    /\ race[c].net = "pending"
    /\ \E resp \in {"ok", "http"} :
          race' = [race EXCEPT ![c].net = "resolved",
                               ![c].promise = Settle(race[c].promise, "fulfilled", resp, "fetch")]
    /\ UNCHANGED <<machineVars, pin, pout>>

\* fetch(req) rejects with a network error.
NetRejects(c) ==
    /\ race[c].net = "pending"
    /\ race' = [race EXCEPT ![c].net = "rejected",
                            ![c].promise = Settle(race[c].promise, "rejected", "neterr", "fetch")]
    /\ UNCHANGED <<machineVars, pin, pout>>

\* await abortableFetch(req, signal) resumes in apiRequest: an ok response
\* goes on to await res.text(); a response that is not ok throws, and a
\* rejection is thrown on, into the catch block of handleRequest.
RaceResume(c) ==
    /\ race[c].phase = "racing"
    /\ race[c].promise.state # "pending"
    /\ race' = [race EXCEPT ![c].delivered = race[c].delivered + 1,
                            ![c].outcome = race[c].promise,
                            ![c].phase = IF race[c].promise.state = "fulfilled"
                                            /\ race[c].promise.value = "ok"
                                         THEN "text" ELSE "done"]
    /\ UNCHANGED <<machineVars, pin, pout>>

\* await res.text() resolves; handleRequest: clearTimeout(timer).
TextRead(c) ==
    /\ race[c].phase = "text"
    /\ race' = [race EXCEPT ![c].phase = "done",
                            ![c].timer = IF race[c].timer = "pending"
                                         THEN "cleared" ELSE race[c].timer]
    /\ UNCHANGED <<machineVars, pin, pout>>

\* await res.text() rejects: the catch block of handleRequest logs.
TextFails(c) ==
    /\ race[c].phase = "text"
    /\ race' = [race EXCEPT ![c].phase = "done"]
    /\ UNCHANGED <<machineVars, pin, pout>>

RaceStep(c) ==
    \/ NewController(c)
    \/ AbortableFetch(c)
    \/ RaceTimerFires(c)
    \/ NetResolves(c)
    \/ NetRejects(c)
    \/ RaceResume(c)
    \/ TextRead(c)
    \/ TextFails(c)

RaceNext == \E c \in Calls : RaceStep(c)

RaceSpec == Init /\ [][RaceNext]_vars

----------------------------------------------------------------------------
(* Properties                                                              *)

InApi(r) == pc[r] \in {"api_fetch", "api_body"}

ApiSucceeded(r) == upstream[r].outcome = "text" /\ Truthy(upstream[r].body)

ApiFailed(r) ==
    \/ upstream[r].outcome \in {"http", "neterr", "timeout"}
    \/ upstream[r].outcome = "text" /\ ~Truthy(upstream[r].body)

\* C1: when the API call completes with a 2xx response and a non-empty body
\* before the 1000 ms timer fires, the request is done with exactly the
\* upstream body and content type and source "api", and neither
\* fallbackLogic nor listRouters ran for it (no call, no directory timer).
C1_ApiSuccessIsForwarded ==
    \A r \in Req :
        ApiSucceeded(r) =>
            /\ pc[r] = "done"
            /\ body[r] = upstream[r].body
            /\ contentType[r] = upstream[r].ct
            /\ source[r] = "api"
            /\ ~call[r].made
            /\ dirTimer[r] = NoTimer

C1_Witness ==
    \E r \in Req : ApiSucceeded(r) /\ pc[r] = "done" /\ apiTimer[r].state = "cleared"

\* C2: after every failing outcome of the upstream attempt (non-2xx status,
\* network error, timeout abort, 2xx with an empty body) the request has
\* entered fallbackLogic (listRouters was called), and once done its source
\* is "fallback" and its content type is text/plain, whatever content type
\* the upstream response carried.
C2_FailureFallsBack ==
    \A r \in Req :
        ApiFailed(r) =>
            /\ call[r].made
            /\ pc[r] \in {"dir_fetch", "dir_body", "done"}
            /\ pc[r] = "done" => source[r] = "fallback" /\ contentType[r] = "text/plain"

C2_Witness ==
    \E r, o \in Req :
        /\ pc[r] = "done" /\ upstream[r].outcome = "text"
        /\ upstream[r].ct = "application/json" /\ ~Truthy(upstream[r].body)
        /\ pc[o] = "done" /\ upstream[o].outcome = "http"

\* C3: a request waits on the upstream call only while its 1000 ms timer is
\* pending and not overdue; when the timer fires during the call (before
\* the headers or before the body), the attempt is abandoned in that step,
\* the request is in the fallback path and ends with source "fallback".
C3_TimeoutAbandonsUpstream ==
    \A r \in Req :
        /\ InApi(r) => apiTimer[r].state = "pending" /\ now <= apiTimer[r].deadline
        /\ apiTimer[r].state = "fired" => ~InApi(r)
        /\ upstream[r].outcome = "timeout" =>
              /\ apiTimer[r].state = "fired"
              /\ call[r].made
              /\ pc[r] = "done" => source[r] = "fallback"

C3_Witness ==
    \E r \in Req :
        /\ upstream[r].outcome = "timeout" /\ pc[r] = "done"
        /\ now = apiTimer[r].deadline

\* A requested transport flag of a router that is true: udp or wss.
Flag(router, c) == (c = "udp" /\ router.udp) \/ (c = "wss" /\ router.wss)

\* Indices of the routers of list of which a requested transport flag is true.
Eligible(qq, list) ==
    {i \in 1..Len(list) :
        \E j \in 1..Len(qq.transport) : Flag(list[i], qq.transport[j])}

\* sel lists the first min(count[0], eligible) indices of an ordering of the
\* eligible routers by non-decreasing distance from the position of qq.  A
\* distance that is no number (the query has no position) orders nothing.
NearestFirst(qq, list, sel) ==
    LET E == Eligible(qq, list)
        d == [i \in 1..Len(list) |->
                 distance(<<qq.lon, qq.lat>>, list[i].position)]
        NotAfter(i, j) == (IsSome(d[i]) /\ IsSome(d[j])) => d[i][1] <= d[j][1]
    IN  /\ Len(sel) = Min(qq.count[1], Cardinality(E))
        /\ \A a \in 1..Len(sel) : sel[a] \in E
        /\ \A a, b \in 1..Len(sel) :
              a < b => sel[a] # sel[b] /\ NotAfter(sel[a], sel[b])
        /\ \A a \in 1..Len(sel) : \A j \in E :
              (\A b \in 1..Len(sel) : sel[b] # j) => NotAfter(sel[a], j)

\* C4: for every cached list and every query, fallbackLogic returns the
\* comma-joined hosts of the first min(count[0], eligible) routers among
\* those with a requested transport flag true, by non-decreasing distance.
C4_FallbackSelectsNearestEligible ==
    pout.step = "result" =>
        \E sel \in SeqsUpTo(1..Len(pin.list), Len(pin.list)) :
            /\ NearestFirst(pout.query, pin.list, sel)
            /\ pout.result =
                  <<"text/plain", Join([a \in 1..Len(sel) |-> pin.list[sel[a]].host])>>

\* C11: when the fallback has run for a request and no router of the list
\* that listRouters returned has a requested transport flag true (the list
\* may be empty: the directory was never fetched, or every refresh failed),
\* the request is done with an empty body, content type text/plain and
\* source "fallback"; and a request is never left in a state other than
\* its awaits and done.
C11_NoEligibleGivesEmptyBody ==
    \A r \in Req :
        /\ pc[r] \in {"idle", "api_fetch", "api_body", "dir_fetch", "dir_body", "done"}
        /\ (pc[r] = "done" /\ call[r].made /\ Eligible(q[r], call[r].returned) = {}) =>
              /\ body[r] = ""
              /\ source[r] = "fallback"
              /\ contentType[r] = "text/plain"

C11_Witness ==
    \E r, o \in Req :
        /\ pc[r] = "done" /\ call[r].made /\ call[r].returned # <<>>
        /\ Eligible(q[r], call[r].returned) = {} /\ body[r] = ""
        /\ pc[o] = "done" /\ call[o].made /\ call[o].failed
        /\ call[o].returned = <<>> /\ body[o] = ""

\* C5 as stated: two listRouters() calls made within one refresh interval of
\* each other never both fetch.
C5_AtMostOneFetchPerInterval ==
    \A r, o \in Req :
        (/\ r # o
         /\ call[r].made /\ call[o].made
         /\ Abs(call[r].at - call[o].at) <= RefreshInterval)
        => ~(dirTimer[r].state # "none" /\ dirTimer[o].state # "none")

\* C5, amended: a listRouters() call fetches exactly when it finds the cache
\* stale (Date.now() > lastFetch + 3600000); a call that finds it fresh sets
\* no timer, starts no fetch and returns the cached list as it is.  Hence a
\* call that starts within one interval of a refresh it has seen succeed
\* does not fetch.
C5_FreshCacheIsNotFetched ==
    \A r \in Req :
        call[r].made =>
            /\ call[r].at <= call[r].lastBefore + RefreshInterval =>
                  /\ dirTimer[r].state = "none"
                  /\ ~call[r].fetched
                  /\ call[r].returned = call[r].before
                  /\ pc[r] = "done"
            /\ call[r].at > call[r].lastBefore + RefreshInterval =>
                  dirTimer[r].state # "none" /\ call[r].fetched

C5_Witness ==
    \E r \in Req :
        /\ call[r].made /\ dirTimer[r].state = "none"
        /\ call[r].returned # <<>>
        /\ call[r].at = call[r].lastBefore + RefreshInterval

C7_QueryWithinBounds ==
    pout.step # "init" =>
        /\ Len(pout.query.count) >= 1
        /\ \A i \in 1..Len(pout.query.count) :
              pout.query.count[i] \in Int /\ pout.query.count[i] >= 1
        /\ pin.request.search.k = <<>> => pout.query.count = <<1>>
        /\ IsSome(pout.query.lon)
        /\ IsSome(pout.query.lon) =>
              pout.query.lon[1] >= 0 - LonMax /\ pout.query.lon[1] <= LonMax
        /\ IsSome(pout.query.lat)
        /\ IsSome(pout.query.lat) =>
              pout.query.lat[1] >= 0 - LatMax /\ pout.query.lat[1] <= LatMax
        /\ pout.query.ipv4 \in BOOLEAN
        /\ pout.query.ipv6 \in BOOLEAN

\* C8: a request without a cap parameter yields the transport list ["udp"],
\* and fallbackLogic then answers with hosts exactly when the cached list has
\* a router whose udp flag is true.
C8_NoCapMeansUdp ==
    (pout.step # "init" /\ pin.request.search.cap = <<>>) =>
        /\ pout.query.transport = <<"udp">>
        /\ pout.step = "result" =>
              (pout.result[2] # "" <=> \E i \in 1..Len(pin.list) : pin.list[i].udp)

C8_Witness ==
    /\ pout.step = "result" /\ pin.request.search.cap = <<>>
    /\ pout.result[2] # ""
    /\ \E i \in 1..Len(pin.list) : ~pin.list[i].udp

\* C9 as stated: the Query parsed from the serialized parameters equals the
\* original in count, transport, ipv4, ipv6 and network, and the serialized
\* set has network if and only if the request set it.
C9_RoundTripAsStated ==
    pout.step = "again" =>
        /\ pout.again.count = pout.query.count
        /\ pout.again.transport = pout.query.transport
        /\ pout.again.ipv4 = pout.query.ipv4
        /\ pout.again.ipv6 = pout.query.ipv6
        /\ pout.again.network = pout.query.network
        /\ pout.params.network # <<>> <=> pin.request.search.network # <<>>

\* C9, amended: the Query parsed from the serialized parameters equals the
\* original in count, transport, ipv4 and ipv6; ipv4 and ipv6 are serialized
\* as "1" or "0"; network is serialized if and only if the original network
\* is a non-empty string and then comes back equal, and an empty network
\* comes back absent.
C9_RoundTrip ==
    pout.step = "again" =>
        /\ pout.again.count = pout.query.count
        /\ Len(pout.params.k) = Len(pout.query.count)
        /\ pout.again.transport = pout.query.transport
        /\ pout.params.cap = pout.query.transport
        /\ pout.again.ipv4 = pout.query.ipv4
        /\ pout.again.ipv6 = pout.query.ipv6
        /\ pout.params.ipv4 = <<IF pout.query.ipv4 THEN "1" ELSE "0">>
        /\ pout.params.ipv6 = <<IF pout.query.ipv6 THEN "1" ELSE "0">>
        /\ pout.params.network # <<>> <=>
              (IsSome(pout.query.network) /\ pout.query.network[1] # "")
        /\ pout.again.network =
              (IF pout.query.network = Some("") THEN None ELSE pout.query.network)

C9_Witness ==
    /\ pout.step = "again"
    /\ Len(pout.query.count) > 1
    /\ pout.query.network = Some("ndn") /\ pout.again.network = Some("ndn")
    /\ pout.query.ipv6 /\ pin.request.search.ipv6 = <<>>

\* C10: every request that has started reaches Done, whatever the API call
\* and the directory refresh do.
C10_EveryRequestCompletes ==
    \A r \in Req : (pc[r] # "idle") ~> (pc[r] = "done")

C10_Witness ==
    \E r \in Req :
        /\ pc[r] = "done"
        /\ upstream[r].outcome = "timeout"
        /\ call[r].failed /\ dirTimer[r].state = "fired"

\* Values of network, ipv4 and ipv6 a second query may differ in.
OtherNetworks == {None, Some(""), Some("ndn"), Some("other")}

\* The fallback result of a query that agrees with qq on count, transport
\* and position and has network n, ipv4 a, ipv6 b.
FallbackOfVariant(qq, list, n, a, b) ==
    fallbackLogic([qq EXCEPT !.network = n, !.ipv4 = a, !.ipv6 = b], list)

\* C12 as stated: the fallback result is the same for every network, ipv4
\* and ipv6, and a network value that is set is among the serialized
\* parameters.
C12_NetworkAsStated ==
    /\ pout.step = "result" =>
          \A n \in OtherNetworks : \A a, b \in BOOLEAN :
              FallbackOfVariant(pout.query, pin.list, n, a, b) = pout.result
    /\ (pout.step \in {"params", "again"} /\ IsSome(pout.query.network)) =>
          pout.params.network = pout.query.network

\* C12, amended: the fallback result is the same for every network, ipv4
\* and ipv6 of the query, and a network value that is a non-empty string is
\* among the serialized parameters (an empty one is not).
C12_FallbackIgnoresNetwork ==
    /\ pout.step = "result" =>
          \A n \in OtherNetworks : \A a, b \in BOOLEAN :
              FallbackOfVariant(pout.query, pin.list, n, a, b) = pout.result
    /\ (pout.step \in {"params", "again"} /\ IsSome(pout.query.network)) =>
          IF pout.query.network[1] # ""
          THEN pout.params.network = pout.query.network
          ELSE pout.params.network = <<>>

C12_Witness ==
    /\ pout.step = "result" /\ pout.query.network = Some("ndn")
    /\ pout.result[2] # "" /\ Len(pin.list) > 1
    /\ FallbackOfVariant(pout.query, pin.list, None, FALSE, TRUE) = pout.result
    /\ toSearchParams(pout.query).network = <<"ndn">>

\* The directory refresh of request r is running.
InDir(r) == pc[r] \in {"dir_fetch", "dir_body"}

\* C13: once the network call a timer was started for has ended (with
\* success, with an HTTP or network error, or by throwing), that timer is
\* no longer pending: the API timer of handleQuery once the request has left
\* apiRequest, the directory timer of listRouters once the request has left
\* fetchTestbedNodes.
C13_TimersClearedOnEveryExit ==
    \A r \in Req :
        /\ (pc[r] # "idle" /\ ~InApi(r)) => apiTimer[r].state # "pending"
        /\ ~InDir(r) => dirTimer[r].state # "pending"

\* C14: when the abort (the timer) settles the race before the network call
\* does, the operation fails with a value that identifies a timeout and the
\* network call has been signalled to stop; when the network call settles
\* the race, its own outcome is what the race returns.
C14_TimeoutSignalsAndIdentifies ==
    \A c \in Calls :
        /\ race[c].promise.by = "abort" =>
              /\ race[c].promise.state = "rejected"
              /\ race[c].promise.value = "timeout"
              /\ race[c].netSignal = "aborted"
        /\ race[c].promise.by = "fetch" =>
              /\ race[c].promise.value \in {"ok", "http", "neterr"}
              /\ race[c].promise.state = "fulfilled" <=> race[c].net = "resolved"

\* C15: the caller of abortableFetch is resumed at most once, with the one
\* value the race settled with, and a race that has settled never changes:
\* a network call completing after the abort, or an abort after the network
\* call has completed, delivers nothing more.
C15_OneOutcomePerCall ==
    /\ [](\A c \in Calls :
            /\ race[c].delivered <= 1
            /\ race[c].delivered = 1 <=> race[c].phase \in {"text", "done"}
            /\ race[c].delivered = 1 =>
                  /\ race[c].outcome = race[c].promise
                  /\ race[c].outcome.state # "pending"
                  /\ race[c].outcome.by \in {"fetch", "abort"})
    /\ [][\A c \in Calls :
            /\ race[c].promise.state # "pending" => race'[c].promise = race[c].promise
            /\ race[c].delivered = 1 =>
                  race'[c].delivered = 1 /\ race'[c].outcome = race[c].outcome]_vars

C15_Witness ==
    \E c, d \in Calls :
        /\ race[c].delivered = 1 /\ race[c].outcome.by = "fetch"
        /\ race[c].timer = "fired" /\ race[c].aborted
        /\ race[d].delivered = 1 /\ race[d].outcome.by = "abort"
        /\ race[d].net = "resolved"

\* C15, for the calls of handleQuery and listRouters that take the native
\* signal: once the API call of a request has produced its outcome (a
\* body, an HTTP or network error, the timeout), that outcome stays, and a
\* request that is done stays as it is, whichever timer fires later.
ApiOutcomeIsFinal ==
    [][\A r \in Req :
          /\ upstream[r].outcome \in {"text", "http", "neterr", "timeout"} =>
                upstream'[r] = upstream[r]
          /\ call[r].made => call'[r].made /\ call'[r].at = call[r].at
          /\ pc[r] = "done" =>
                /\ pc'[r] = "done" /\ body'[r] = body[r]
                /\ source'[r] = source[r] /\ contentType'[r] = contentType[r]
                /\ call'[r] = call[r]]_vars

\* The lists a single successful fetch can produce.
FetchedLists == {ParseNodes(doc) : doc \in DirDocs}

\* The step is the successful end of the refresh of request r: only that
\* path clears the directory timer.
RefreshSucceeds(r) ==
    dirTimer[r].state = "pending" /\ dirTimer'[r].state = "cleared"

\* C16: the cache is always the initial empty list or the complete list of
\* one single fetch; a step changes it only as the successful end of a
\* refresh, and then to the list of that refresh, which is also what the
\* refreshing request gets: after concurrent refreshes the cache is the
\* list of the one that completed last.
C16_CacheIsOneWholeList ==
    /\ [](routers = <<>> \/ routers \in FetchedLists)
    /\ [][(\A r \in Req :
               RefreshSucceeds(r) =>
                   /\ routers' \in FetchedLists
                   /\ routers' = call'[r].returned
                   /\ lastFetch' = now)
          /\ (routers' # routers => \E r \in Req : RefreshSucceeds(r))]_vars

C16_Witness ==
    \E r, o \in Req :
        /\ dirTimer[r].state = "cleared" /\ dirTimer[o].state = "cleared"
        /\ call[r].at = call[o].at
        /\ call[r].returned # call[o].returned
        /\ Len(call[o].returned) > 1
        /\ routers = call[r].returned

\* The step ends the API timer of request r: its callback runs or
\* clearTimeout is called.
ApiTimerEnds(r) ==
    apiTimer[r].state = "pending" /\ apiTimer'[r].state \in {"fired", "cleared"}

\* The step runs the callback of the directory timer of request r.
DirTimerEnds(r) ==
    dirTimer[r].state = "pending" /\ dirTimer'[r].state = "fired"

\* C17: a step in which the API timer of a request fires or is cleared
\* leaves the cache, its timestamp and every directory refresh that is
\* running (of the same or of another request) as they are, and a step in
\* which a directory timer fires leaves every API call that is running, its
\* timer and its answer as they are.
C17_TimeoutsAreLocal ==
    [][\A r \in Req :
          /\ ApiTimerEnds(r) =>
                /\ routers' = routers /\ lastFetch' = lastFetch
                /\ \A o \in Req :
                      InDir(o) =>
                          /\ pc'[o] = pc[o] /\ call'[o] = call[o]
                          /\ dirTimer'[o] = dirTimer[o]
                          /\ body'[o] = body[o] /\ source'[o] = source[o]
          /\ DirTimerEnds(r) =>
                \A o \in Req :
                    InApi(o) =>
                        /\ pc'[o] = pc[o] /\ upstream'[o] = upstream[o]
                        /\ apiTimer'[o] = apiTimer[o] /\ sent'[o] = sent[o]
                        /\ body'[o] = body[o] /\ source'[o] = source[o]]_vars

\* The API timer of request r, left pending by an HTTP error, has fired
\* while the refresh of r was running, and the directory timer of r has
\* fired while the API call of request o, started before, was running.
C17_Witness ==
    \E r, o \in Req :
        /\ upstream[r].outcome = "http"
        /\ apiTimer[r].state = "fired" /\ dirTimer[r].state = "fired"
        /\ call[r].failed /\ call[r].at < apiTimer[r].deadline
        /\ InApi(o)
        /\ apiTimer[o].deadline - ApiTimeout < dirTimer[r].deadline

\* C18: a request starts its API fetch once, when it arrives, and the API
\* call produces one answer; listRouters is called only in the step that
\* ends the API call with a failure or an empty body, once per request; a
\* listRouters call starts a fetch of the directory only as it is called,
\* and never a second one.
C18_OneAttemptThenFallback ==
    /\ [](\A r \in Req :
            /\ call[r].made => ApiFailed(r)
            /\ InDir(r) => call[r].made /\ call[r].fetched)
    /\ [][\A r \in Req :
            /\ (pc'[r] = "api_fetch" /\ pc[r] # "api_fetch") => pc[r] = "idle"
            /\ pc[r] # "idle" =>
                  pc'[r] # "idle" /\ sent'[r] = sent[r] /\ req'[r] = req[r]
            /\ ApiFailed(r) \/ ApiSucceeded(r) =>
                  upstream'[r] = upstream[r] /\ ~InApi(r) /\ pc'[r] # "api_fetch"
            /\ (call'[r].made /\ ~call[r].made) => InApi(r) /\ ApiFailed(r)'
            /\ (pc'[r] = "dir_fetch" /\ pc[r] # "dir_fetch") =>
                  ~call[r].made /\ call'[r].fetched
            /\ call[r].made =>
                  /\ call'[r].made /\ call'[r].at = call[r].at
                  /\ call'[r].fetched = call[r].fetched
                  /\ pc'[r] # "dir_fetch" \/ pc[r] = "dir_fetch"
            /\ ~call[r].fetched' => ~InDir(r)']_vars

\* Both requests went through their API call and fell back; one refreshed
\* the directory after a timeout of the API call, the other was served from
\* the cache after an empty API body.
C18_Witness ==
    \E r, o \in Req :
        /\ pc[r] = "done" /\ pc[o] = "done"
        /\ upstream[r].outcome = "timeout" /\ call[r].made /\ call[r].fetched
        /\ upstream[o].outcome = "text" /\ call[o].made /\ ~call[o].fetched

\* sel lists, in the order of the result, the indices of the first
\* min(count[0], available) routers that fallbackLogic keeps of list:
\* no router comes before one the comparator puts first, and routers the
\* comparator does not tell apart (equal distances) come in the order of
\* list.  There is one such sel for a list and a query.
StableNearest(qq, list, sel) ==
    LET A == {i \in 1..Len(list) : Avail(qq, list[i])}
        d == [i \in 1..Len(list) |->
                 distance(<<qq.lon, qq.lat>>, list[i].position)]
        Before(i, j) ==
            \/ Compare(d[i], d[j]) < 0
            \/ Compare(d[i], d[j]) = 0 /\ i < j
    IN  /\ Len(sel) = Min(qq.count[1], Cardinality(A))
        /\ \A a \in 1..Len(sel) : sel[a] \in A
        /\ \A a, b \in 1..Len(sel) : a < b => Before(sel[a], sel[b])
        /\ \A a \in 1..Len(sel) : \A j \in A :
              (\A b \in 1..Len(sel) : sel[b] # j) => Before(sel[a], j)

\* C19: the result of fallbackLogic lists the selected routers by distance,
\* routers at equal distance in the order of the cached list.
C19_EqualDistanceKeepsDirectoryOrder ==
    pout.step = "result" =>
        \E sel \in SeqsUpTo(1..Len(pin.list), Len(pin.list)) :
            /\ StableNearest(pout.query, pin.list, sel)
            /\ pout.result[2] = Join([a \in 1..Len(sel) |-> pin.list[sel[a]].host])

\* D precedes B in the cached list, A stands between them, D and B are at
\* the same numeric distance from the query position, and the result names
\* D, then B (and A before or after the two).
C19_Witness ==
    /\ pout.step = "result"
    /\ Len(pin.list) = 3
    /\ pin.list[1].id = "D" /\ pin.list[2].id = "A" /\ pin.list[3].id = "B"
    /\ pin.list[1].position = pin.list[3].position
    /\ IsSome(distance(<<pout.query.lon, pout.query.lat>>, pin.list[1].position))
    /\ pout.result[2] \in
          { Join(<<pin.list[2].host, pin.list[1].host, pin.list[3].host>>),
            Join(<<pin.list[1].host, pin.list[3].host, pin.list[2].host>>) }

\* Hosts that name the unspecified address, without a port and with the
\* ports of the directory documents.
UnspecifiedHosts ==
    {"0.0.0.0"}
    \cup UNION { { "0.0.0.0" \o ":" \o doc[k].site.port : k \in 1..Len(doc) } :
                   doc \in DirDocs }

\* C20: every router of the cache has a host that is not empty and not the
\* unspecified address, alone or followed by a port, and comes from an
\* entry of a directory document whose enabled flag is its udp flag and,
\* if its wss flag is true, whose enabled and TLS flags are both true.
C20_CachedRoutersAreUsable ==
    \A i \in 1..Len(routers) :
        /\ routers[i].host # ""
        /\ routers[i].host \notin UnspecifiedHosts
        /\ \E doc \in DirDocs : \E k \in 1..Len(doc) :
              /\ doc[k].shortname = routers[i].id
              /\ routers[i].udp = doc[k].fch
              /\ routers[i].wss => doc[k].fch /\ doc[k].wstls

\* A list of exactly two numbers.
NumericPair(pos) ==
    /\ pos.kind = "array"
    /\ Len(pos.elems) = 2
    /\ \A i \in 1..2 : IsSome(pos.elems[i])

\* The site of entry o gives a host that is kept.
HostKept(o) ==
    IsSome(UrlHost(o.site)) /\ ~HostRejected(UrlHost(o.site)[1])

\* Names and positions of the routers that remain of doc when the entries
\* whose chosen position is no pair of numbers are dropped (and those whose
\* host is dropped), positions swapped to (lon, lat).
NumericPairsOf(doc) ==
    LET kept == SelectSeq(doc, LAMBDA o : NumericPair(PosOf(o)) /\ HostKept(o))
    IN  [i \in 1..Len(kept) |->
            <<kept[i].shortname,
              <<PosOf(kept[i]).elems[2], PosOf(kept[i]).elems[1]>>>>]

\* C21: the cache holds, in the order of the document, exactly the entries
\* whose chosen position (the override if present, else the position) is a
\* list of two numbers, each with that position swapped to (lon, lat),
\* whatever the range of the numbers.
C21_KeepsExactlyNumericPairs ==
    \E doc \in DirDocs \cup {<<>>} :
        [i \in 1..Len(routers) |-> <<routers[i].id, routers[i].position>>]
            = NumericPairsOf(doc)

\* The step runs the callback of the API timer of request r.
ApiTimerRuns(r) ==
    apiTimer[r].state = "pending" /\ apiTimer'[r].state = "fired"

\* What the program holds besides the timers.
Outcomes ==
    <<now, routers, lastFetch, pc, req, q, source, contentType, body,
      upstream, call, sent>>

\* C22: a step in which the API timer of a request fires after the API call
\* of that request has ended, or its directory timer after its refresh has
\* ended, changes nothing but the state of that timer: bodies, content
\* types, sources, positions of all requests, the cache and lastFetch stay.
C22_LateTimerChangesNothing ==
    [][\A r \in Req :
          /\ (ApiTimerRuns(r) /\ ~InApi(r)) =>
                /\ Outcomes' = Outcomes
                /\ dirTimer' = dirTimer
                /\ \A o \in Req \ {r} : apiTimer'[o] = apiTimer[o]
          /\ (DirTimerEnds(r) /\ ~InDir(r)) =>
                /\ Outcomes' = Outcomes
                /\ apiTimer' = apiTimer
                /\ \A o \in Req \ {r} : dirTimer'[o] = dirTimer[o]]_vars

\* The API call of r ended early with an HTTP error, its timer, left
\* pending, has fired since, and r is done with the answer of the fallback,
\* taken from a directory that was fetched.
C22_Witness ==
    \E r \in Req :
        /\ upstream[r].outcome = "http"
        /\ apiTimer[r].state = "fired"
        /\ pc[r] = "done" /\ source[r] = "fallback"
        /\ call[r].fetched /\ ~call[r].failed /\ body[r] # ""

=============================================================================
